---- MODULE Spec2Model ----
(***************************************************************************)
(* Model of the two clean-up scripts of the repository:                    *)
(*   src/remove_console_logs.py      main() and remove_console_logs()      *)
(*   src/backend/extract_guest_method.py   the registerGuest splice        *)
(*                                                                         *)
(* Text is a sequence of tokens.  A token is one lexical piece of a file: *)
(* a call prefix ("console.log", ...), a parenthesis, a blank, the line    *)
(* terminator "\n", or some other text.  File content is one token         *)
(* sequence; a line is a token sequence without "\n" (remove_console_logs, *)
(* str.split) or with its terminator kept (readlines).                     *)
(* Line indices i, j and the file cursor are 0-based, as in the source.    *)
(***************************************************************************)
EXTENDS Integers, Sequences, FiniteSets, TLC

VARIABLES
    disk,          \* path -> content of the file on disk
    paths,         \* the candidate files in os.walk order
    next_file,     \* number of files main() has finished with
    files_cleaned, \* main(): files_cleaned
    pc,            \* position in the running script
    content,       \* remove_console_logs: content
    lines,         \* lines (both scripts)
    new_lines,     \* new_lines (both scripts)
    i,             \* remove_console_logs: i
    j,             \* remove_console_logs: j
    paren_count,   \* remove_console_logs: paren_count
    new_content,   \* remove_console_logs: new_content
    ret,           \* value returned by the last remove_console_logs call
    errors,        \* <<path, stage>> of every "Error processing" report
    written,       \* paths whose write-back completed ("Cleaned" report)
    run,           \* which run of the script this is
    run_log,       \* files_cleaned reported by each completed run
    disk0,         \* history: disk when the current run started
    outputs,       \* history: path -> new_content computed in this run
    attempts,      \* history: path -> calls of remove_console_logs in this run
    ranges,        \* history: <<i, j>> of every statement skipped in this file
    kept,          \* history: indices of the lines appended to new_lines
    startIndex,    \* extract_guest_method: first replaced index
    endIndex       \* extract_guest_method: first index after the range

vars == <<disk, paths, next_file, files_cleaned, pc, content, lines, new_lines,
          i, j, paren_count, new_content, ret, errors, written, run, run_log,
          disk0, outputs, attempts, ranges, kept, startIndex, endIndex>>

(***************************************************************************)
(* Bounds of the model.                                                    *)
(***************************************************************************)
MaxLines == 4
MaxRuns == 2
MaxFiles == 3
MaxFaults == 2
MaxSpliceLen == 3

(***************************************************************************)
(* Generic sequence helpers.                                               *)
(***************************************************************************)
At(seq, idx) == seq[idx + 1]

Count(line, ch) == Cardinality({p \in 1..Len(line) : line[p] = ch})

\* Python slice seq[lo:hi] for 0 <= lo, with hi clamped to len(seq)
PySlice(seq, lo, hi) ==
    LET h == IF hi > Len(seq) THEN Len(seq) ELSE hi
    IN  IF lo >= h THEN <<>> ELSE SubSeq(seq, lo + 1, h)

\* the elements of seq at the indices (0-based) in idxs, in order
RECURSIVE Restrict(_, _, _)
Restrict(seq, idxs, from) ==
    IF from >= Len(seq) THEN <<>>
    ELSE (IF from \in idxs THEN <<At(seq, from)>> ELSE <<>>)
         \o Restrict(seq, idxs, from + 1)

(***************************************************************************)
(* str.split('\n') and '\n'.join(...)                                      *)
(***************************************************************************)
RECURSIVE SplitFrom(_, _, _)
SplitFrom(s, p, cur) ==
    IF p > Len(s) THEN <<cur>>
    ELSE IF s[p] = "\n" THEN <<cur>> \o SplitFrom(s, p + 1, <<>>)
    ELSE SplitFrom(s, p + 1, Append(cur, s[p]))

Split(s) == SplitFrom(s, 1, <<>>)

RECURSIVE JoinTrailing(_)
JoinTrailing(ls) ==
    IF ls = <<>> THEN <<>> ELSE Head(ls) \o <<"\n">> \o JoinTrailing(Tail(ls))

RECURSIVE Join(_)
Join(ls) ==
    IF ls = <<>> THEN <<>>
    ELSE IF Len(ls) = 1 THEN Head(ls)
    ELSE Head(ls) \o <<"\n">> \o Join(Tail(ls))

(***************************************************************************)
(* The pattern  \s*console\.(log|debug|info)\s*\(  searched in a line.     *)
(***************************************************************************)
CallPrefixes == {"console.log", "console.debug", "console.info"}

IsSpace(tok) == tok = " "

Matches(line) ==
    \E p \in 1..Len(line) :
        /\ line[p] \in CallPrefixes
        /\ \E q \in (p + 1)..Len(line) :
              /\ line[q] = "("
              /\ \A r \in (p + 1)..(q - 1) : IsSpace(line[r])

\* line.count('(') - line.count(')')
OpensOnly(line) == Count(line, "(")

ParenDelta(line) == Count(line, "(") - Count(line, ")")

\* the guard of the inner while loop
ContinueUntilOne(count, jj, n) == count > 1 /\ jj < n - 1

ContinueShort(count, jj, n) == count > 0 /\ jj < n - 2

ContinueScan(count, jj, n) == count > 0 /\ jj < n - 1

\* i = j + 1
CursorSkipsOne(jj) == jj + 2

NextCursor(jj) == jj + 1

\* new_content != content
AlwaysChanged(nc, c) == TRUE

Changed(nc, c) == nc # c

\* paren_count += lines[j].count('(') - lines[j].count(')')
AccumulateOpens(count, line) == count + Count(line, "(")

Accumulate(count, line) == count + ParenDelta(line)

\* main(): the for loop takes the next file after a call that returned
NextFile(k) == k + 1

\* the except clause returns False, so the for loop takes the next file
AbortRun(k, n) == n

ResumeAfterError(k, n) == k + 1

\* if remove_console_logs(file_path): files_cleaned += 1
CountAlways(count, r) == count + 1

CountCleaned(count, r) == IF r THEN count + 1 ELSE count

(***************************************************************************)
(* Inputs.                                                                 *)
(***************************************************************************)
LNext == <<"x", "(", ")", ";">>
LSingle == <<"console.log", "(", "x", ")", ";">>
LOpen == <<"console.log", "(">>
LClose == <<")", ";">>
LArg == <<" ", "x">>
LEmpty == <<>>
LOver == <<"x", "console.info", " ", "(", ")", ")">>
LDeep == <<"console.debug", "(", "(">>
LWarn == <<"console.warn", "(">>

LineKinds == {LEmpty, LNext, LSingle, LOpen, LClose, LOver, LDeep, LWarn}

\* the example of the documentation: a four-line console.log call and a statement
ExampleLines == <<LOpen, LArg, LArg, LClose, LNext>>

\* the text of a file whose lines are ls
RECURSIVE FileOf(_)
FileOf(ls) ==
    IF Len(ls) = 1 THEN Head(ls) ELSE Head(ls) \o <<"\n">> \o FileOf(Tail(ls))

Contents ==
    {FileOf(ls) : ls \in UNION {[1..n -> LineKinds] : n \in 1..MaxLines}}
    \cup {FileOf(ExampleLines)}

BatchContents ==
    { FileOf(<<LNext>>),
      FileOf(<<LSingle, LNext>>),
      FileOf(<<LOpen, LClose, LNext>>),
      FileOf(<<LWarn, LOpen>>) }

Unprocessed == <<"unprocessed">>

Path == paths[next_file + 1]

Prefixes(s) == {SubSeq(s, 1, n) : n \in 0..Len(s)}

(***************************************************************************)
(* remove_console_logs and main                                            *)
(***************************************************************************)
locals == <<content, lines, new_lines, i, j, paren_count, new_content, ranges, kept>>
splicevars == <<startIndex, endIndex>>
runvars == <<run, run_log, disk0, paths>>

\* lines 9-19: the file is read and split, the scan starts
ReadFile ==
    /\ pc = "main"
    /\ next_file < Len(paths)
    /\ content' = disk[Path]
    /\ lines' = Split(disk[Path])
    /\ new_lines' = <<>>
    /\ i' = 0
    /\ ranges' = <<>>
    /\ kept' = {}
    /\ attempts' = [attempts EXCEPT ![Path] = @ + 1]
    /\ pc' = "scan"
    /\ UNCHANGED <<disk, next_file, files_cleaned, j, paren_count, new_content,
                   ret, errors, written, outputs>>
    /\ UNCHANGED runvars /\ UNCHANGED splicevars

\* lines 9-10, 54-56: open or read raises; reported, False returned
ReadError ==
    /\ pc = "main"
    /\ next_file < Len(paths)
    /\ Cardinality(errors) < MaxFaults
    /\ errors' = errors \cup {<<Path, "read">>}
    /\ attempts' = [attempts EXCEPT ![Path] = @ + 1]
    /\ ret' = FALSE
    /\ next_file' = ResumeAfterError(next_file, Len(paths))
    /\ files_cleaned' = CountCleaned(files_cleaned, FALSE)
    /\ UNCHANGED <<disk, pc, written, outputs>>
    /\ UNCHANGED locals /\ UNCHANGED runvars /\ UNCHANGED splicevars

\* lines 21-25, 39-41: the line does not match and is kept
KeepLine ==
    /\ pc = "scan"
    /\ i < Len(lines)
    /\ ~Matches(At(lines, i))
    /\ new_lines' = Append(new_lines, At(lines, i))
    /\ kept' = kept \cup {i}
    /\ i' = i + 1
    /\ UNCHANGED <<disk, next_file, files_cleaned, pc, content, lines, j,
                   paren_count, new_content, ret, errors, written, outputs,
                   attempts, ranges>>
    /\ UNCHANGED runvars /\ UNCHANGED splicevars

\* lines 25-28: the line matches
MatchLine ==
    /\ pc = "scan"
    /\ i < Len(lines)
    /\ Matches(At(lines, i))
    /\ paren_count' = ParenDelta(At(lines, i))
    /\ j' = i
    /\ pc' = "inner"
    /\ UNCHANGED <<disk, next_file, files_cleaned, content, lines, new_lines, i,
                   new_content, ret, errors, written, outputs, attempts, ranges,
                   kept>>
    /\ UNCHANGED runvars /\ UNCHANGED splicevars

\* lines 31-34: one round of the inner loop
Extend ==
    /\ pc = "inner"
    /\ ContinueScan(paren_count, j, Len(lines))
    /\ j' = j + 1
    /\ paren_count' = IF j + 1 < Len(lines)
                      THEN Accumulate(paren_count, At(lines, j + 1))
                      ELSE paren_count
    /\ UNCHANGED <<disk, next_file, files_cleaned, pc, content, lines, new_lines,
                   i, new_content, ret, errors, written, outputs, attempts,
                   ranges, kept>>
    /\ UNCHANGED runvars /\ UNCHANGED splicevars

\* lines 31, 36-38: the inner loop ends, lines i..j are skipped
Skip ==
    /\ pc = "inner"
    /\ ~ContinueScan(paren_count, j, Len(lines))
    /\ ranges' = Append(ranges, <<i, j>>)
    /\ i' = NextCursor(j)
    /\ pc' = "scan"
    /\ UNCHANGED <<disk, next_file, files_cleaned, content, lines, new_lines, j,
                   paren_count, new_content, ret, errors, written, outputs,
                   attempts, kept>>
    /\ UNCHANGED runvars /\ UNCHANGED splicevars

\* lines 21, 43: the scan is over, the kept lines are joined
JoinLines ==
    /\ pc = "scan"
    /\ i >= Len(lines)
    /\ new_content' = Join(new_lines)
    /\ outputs' = [outputs EXCEPT ![Path] = Join(new_lines)]
    /\ pc' = "cmp"
    /\ UNCHANGED <<disk, next_file, files_cleaned, content, lines, new_lines, i,
                   j, paren_count, ret, errors, written, attempts, ranges, kept>>
    /\ UNCHANGED runvars /\ UNCHANGED splicevars

\* lines 46, 51-52: nothing changed, False returned
ReturnUnchanged ==
    /\ pc = "cmp"
    /\ ~Changed(new_content, content)
    /\ ret' = FALSE
    /\ next_file' = NextFile(next_file)
    /\ pc' = "main"
    /\ files_cleaned' = CountCleaned(files_cleaned, FALSE)
    /\ UNCHANGED <<disk, errors, written, outputs, attempts>>
    /\ UNCHANGED locals /\ UNCHANGED runvars /\ UNCHANGED splicevars

\* lines 46-50, 75-76: the file is overwritten, True returned and counted
WriteBack ==
    /\ pc = "cmp"
    /\ Changed(new_content, content)
    /\ disk' = [disk EXCEPT ![Path] = new_content]
    /\ written' = written \cup {Path}
    /\ ret' = TRUE
    /\ files_cleaned' = CountCleaned(files_cleaned, TRUE)
    /\ next_file' = NextFile(next_file)
    /\ pc' = "main"
    /\ UNCHANGED <<errors, outputs, attempts>>
    /\ UNCHANGED locals /\ UNCHANGED runvars /\ UNCHANGED splicevars

\* lines 47, 54-56: open(file_path, 'w') raises; the file is as it was
WriteOpenError ==
    /\ pc = "cmp"
    /\ Changed(new_content, content)
    /\ Cardinality(errors) < MaxFaults
    /\ errors' = errors \cup {<<Path, "open">>}
    /\ ret' = FALSE
    /\ next_file' = ResumeAfterError(next_file, Len(paths))
    /\ pc' = "main"
    /\ files_cleaned' = CountCleaned(files_cleaned, FALSE)
    /\ UNCHANGED <<disk, written, outputs, attempts>>
    /\ UNCHANGED locals /\ UNCHANGED runvars /\ UNCHANGED splicevars

\* lines 47-48, 54-56: the file was truncated by open, then write, flush or
\* close raises with some leading part of new_content on disk
WriteError ==
    /\ pc = "cmp"
    /\ Changed(new_content, content)
    /\ Cardinality(errors) < MaxFaults
    /\ \E part \in Prefixes(new_content) :
          disk' = [disk EXCEPT ![Path] = part]
    /\ errors' = errors \cup {<<Path, "write">>}
    /\ ret' = FALSE
    /\ next_file' = ResumeAfterError(next_file, Len(paths))
    /\ pc' = "main"
    /\ files_cleaned' = CountCleaned(files_cleaned, FALSE)
    /\ UNCHANGED <<written, outputs, attempts>>
    /\ UNCHANGED locals /\ UNCHANGED runvars /\ UNCHANGED splicevars

\* line 78: every file was handled, the summary is printed
Finish ==
    /\ pc = "main"
    /\ next_file >= Len(paths)
    /\ pc' = "done"
    /\ UNCHANGED <<disk, next_file, files_cleaned, ret, errors, written, outputs,
                   attempts>>
    /\ UNCHANGED locals /\ UNCHANGED runvars /\ UNCHANGED splicevars

\* the script is started again on the files the last run left (lines 58-67)
Rerun ==
    /\ pc = "done"
    /\ run < MaxRuns
    /\ run' = run + 1
    /\ run_log' = Append(run_log, files_cleaned)
    /\ disk0' = disk
    /\ files_cleaned' = 0
    /\ next_file' = 0
    /\ errors' = {}
    /\ written' = {}
    /\ outputs' = [p \in DOMAIN disk |-> Unprocessed]
    /\ attempts' = [p \in DOMAIN disk |-> 0]
    /\ pc' = "main"
    /\ UNCHANGED <<disk, paths, ret>>
    /\ UNCHANGED locals /\ UNCHANGED splicevars

InitVars(ps, d, start, s, e) ==
    /\ paths = ps
    /\ disk = d
    /\ disk0 = d
    /\ next_file = 0
    /\ files_cleaned = 0
    /\ pc = start
    /\ content = <<>>
    /\ lines = <<>>
    /\ new_lines = <<>>
    /\ i = 0
    /\ j = 0
    /\ paren_count = 0
    /\ new_content = <<>>
    /\ ret = FALSE
    /\ errors = {}
    /\ written = {}
    /\ run = 1
    /\ run_log = <<>>
    /\ outputs = [p \in DOMAIN d |-> Unprocessed]
    /\ attempts = [p \in DOMAIN d |-> 0]
    /\ ranges = <<>>
    /\ kept = {}
    /\ startIndex = s
    /\ endIndex = e

InitRun(ps, d) == InitVars(ps, d, "main", 0, 0)

\* one file, any content, the script run MaxRuns times, no I/O failure
Init == \E c \in Contents : InitRun(<<1>>, [p \in {1} |-> c])

Next ==
    \/ ReadFile
    \/ KeepLine
    \/ MatchLine
    \/ Extend
    \/ Skip
    \/ JoinLines
    \/ ReturnUnchanged
    \/ WriteBack
    \/ Finish
    \/ Rerun

Spec == Init /\ [][Next]_vars

\* MaxFiles files, one run, up to MaxFaults I/O failures
InitBatch ==
    \E d \in [1..MaxFiles -> BatchContents] :
        InitRun([n \in 1..MaxFiles |-> n], d)

NextBatch ==
    \/ ReadFile
    \/ ReadError
    \/ KeepLine
    \/ MatchLine
    \/ Extend
    \/ Skip
    \/ JoinLines
    \/ ReturnUnchanged
    \/ WriteBack
    \/ WriteOpenError
    \/ WriteError
    \/ Finish

SpecBatch == InitBatch /\ [][NextBatch]_vars

(***************************************************************************)
(* extract_guest_method.py                                                 *)
(***************************************************************************)
\* f.readlines(): the lines of s, each with its "\n" kept
RECURSIVE KeepEndsFrom(_, _, _)
KeepEndsFrom(s, p, cur) ==
    IF p > Len(s) THEN (IF cur = <<>> THEN <<>> ELSE <<cur>>)
    ELSE IF s[p] = "\n" THEN <<Append(cur, "\n")>> \o KeepEndsFrom(s, p + 1, <<>>)
    ELSE KeepEndsFrom(s, p + 1, Append(cur, s[p]))

SplitKeepEnds(s) == KeepEndsFrom(s, 1, <<>>)

\* f.writelines(ls): the elements written one after the other
RECURSIVE Concat(_)
Concat(ls) == IF ls = <<>> THEN <<>> ELSE Head(ls) \o Concat(Tail(ls))

\* the delegation text: ten lines of code and a blank line, one string
delegation ==
    <<"/**", "\n", "*", "\n", "*", "\n", "*/", "\n",
      "static", "(", ")", "\n", "const", "(", "\n", "x", "\n", ")", ";", "\n",
      "return", "(", ")", ";", "\n", "}", "\n", "\n">>

\* the indices of line 30
HeaderEnd == 77
RestStart == 783

\* lines[0:s] + [block] + lines[e:]
SpliceOffByOne(ls, s, e, block) ==
    PySlice(ls, 0, s) \o <<block>> \o PySlice(ls, e + 1, Len(ls))

Splice(ls, s, e, block) ==
    PySlice(ls, 0, s) \o <<block>> \o PySlice(ls, e, Len(ls))

SpliceLineKinds == {<<"x", "\n">>, <<"(", "\n">>, <<"\n">>}

SpliceContents ==
    {Concat(ls) \o tail :
        ls \in UNION {[1..n -> SpliceLineKinds] : n \in 0..MaxSpliceLen},
        tail \in {<<>>, <<"x">>}}

SpliceRanges ==
    {<<s, e>> \in (0..(MaxSpliceLen + 1)) \X (0..(MaxSpliceLen + 1)) : s <= e}
    \cup {<<HeaderEnd, RestStart>>}

runstate == <<next_file, files_cleaned, content, i, j, paren_count, new_content,
              ret, errors, written, run, run_log, disk0, outputs, attempts,
              ranges, kept, paths>>

\* lines 8-9
ReadLines ==
    /\ pc = "extract"
    /\ lines' = SplitKeepEnds(disk[1])
    /\ pc' = "read"
    /\ UNCHANGED <<disk, new_lines>>
    /\ UNCHANGED runstate /\ UNCHANGED splicevars

\* line 30
BuildNewLines ==
    /\ pc = "read"
    /\ new_lines' = Splice(lines, startIndex, endIndex, delegation)
    /\ pc' = "built"
    /\ UNCHANGED <<disk, lines>>
    /\ UNCHANGED runstate /\ UNCHANGED splicevars

\* lines 33-34
WriteLines ==
    /\ pc = "built"
    /\ disk' = [disk EXCEPT ![1] = Concat(new_lines)]
    /\ pc' = "extracted"
    /\ UNCHANGED <<lines, new_lines>>
    /\ UNCHANGED runstate /\ UNCHANGED splicevars

InitSplice ==
    \E c \in SpliceContents, r \in SpliceRanges :
        InitVars(<<1>>, [p \in {1} |-> c], "extract", r[1], r[2])

NextSplice ==
    \/ ReadLines
    \/ BuildNewLines
    \/ WriteLines

SpecSplice == InitSplice /\ [][NextSplice]_vars

(***************************************************************************)
(* Vocabulary of the properties.                                           *)
(***************************************************************************)
\* balance of a line: its '(' minus its ')'
Balance(line) == Count(line, "(") - Count(line, ")")

\* the balance summed over lines a..b
RECURSIVE SumBalance(_, _, _)
SumBalance(ls, a, b) ==
    IF a > b THEN 0 ELSE Balance(At(ls, a)) + SumBalance(ls, a + 1, b)

\* some line after a brings the running balance of the statement at a to <= 0
HasClose(ls, a) == \E b \in (a + 1)..(Len(ls) - 1) : SumBalance(ls, a, b) <= 0

FirstClose(ls, a) ==
    CHOOSE b \in (a + 1)..(Len(ls) - 1) :
        /\ SumBalance(ls, a, b) <= 0
        /\ \A c \in (a + 1)..(b - 1) : SumBalance(ls, a, c) > 0

RangeStarts == {ranges[r][1] : r \in 1..Len(ranges)}

\* lines consumed as continuation lines of a skipped statement
Continuations ==
    {m \in 0..(Len(lines) - 1) :
        \E r \in 1..Len(ranges) : ranges[r][1] < m /\ m <= ranges[r][2]}

\* the scan went on with line m right after the statement ending at m - 1
ResumedAt(m) ==
    m < Len(lines) => (i = m \/ m \in kept \/ m \in RangeStarts)

\* line m, once the scan is past it, was kept if it does not match
KeptUnlessMatch(m) ==
    (m >= 0 /\ m < Len(lines) /\ i > m /\ ~Matches(At(lines, m))) => m \in kept

Clean(c) == \A m \in 1..Len(Split(c)) : ~Matches(Split(c)[m])

Failed == {e[1] : e \in errors}

ChangedBy(p) == outputs[p] # Unprocessed /\ outputs[p] # disk0[p]

Processed == {paths[m] : m \in 1..(IF next_file < Len(paths) THEN next_file ELSE Len(paths))}

(***************************************************************************)
(* Properties.                                                             *)
(***************************************************************************)
\* C1: running the script again on what a run left finds nothing to change:
\* the joined text equals the text read, False is returned, nothing is written.
C1_Idempotent ==
    run >= 2 =>
        /\ pc = "cmp" => new_content = content
        /\ (pc \in {"main", "done"} /\ next_file > 0) => ret = FALSE
        /\ disk = disk0
        /\ files_cleaned = 0
        /\ written = {}

C1_Witness ==
    run = 2 /\ pc = "done" /\ run_log = <<1>> /\ files_cleaned = 0 /\ disk = disk0

\* C2 as stated: every line that does not match the pattern is in the output,
\* in order.
C2_AllNonMatchingKept ==
    pc = "cmp" => new_lines = SelectSeq(lines, LAMBDA l : ~Matches(l))

\* C2 amended: the output is, verbatim and in order, every line that neither
\* matches the pattern nor is a continuation line of a skipped statement.
C2_Kept ==
    pc = "cmp" =>
        /\ new_lines =
             Restrict(lines,
                      {m \in 0..(Len(lines) - 1) :
                          ~Matches(At(lines, m)) /\ m \notin Continuations}, 0)
        /\ new_content = Join(new_lines)

C2_Witness ==
    /\ pc = "cmp"
    /\ lines = <<LNext, LOpen, LClose>>
    /\ new_lines = <<LNext>>

\* C3: a matching line a with balance > 0 that is closed later is skipped
\* together with the lines up to the first line b where the running balance is
\* <= 0, none of a..b is kept, the scan goes on with line b + 1, and line b + 1
\* is kept when it does not match.
C3_MultiLine ==
    \A r \in 1..Len(ranges) :
        LET a == ranges[r][1]
            b == ranges[r][2]
        IN  (Balance(At(lines, a)) > 0 /\ HasClose(lines, a)) =>
                /\ b = FirstClose(lines, a)
                /\ kept \cap (a..b) = {}
                /\ ResumedAt(b + 1)
                /\ KeptUnlessMatch(b + 1)
                /\ new_lines = Restrict(lines, kept, 0)

C3_Witness ==
    /\ pc = "cmp"
    /\ lines = ExampleLines
    /\ ranges = << <<0, 3>> >>
    /\ new_lines = <<LNext>>

\* C4 as stated: a matching line a with balance <= 0 is skipped alone, and the
\* lines before and after it are each kept when they do not match.
C4_AdjacentKept ==
    \A r \in 1..Len(ranges) :
        LET a == ranges[r][1]
            b == ranges[r][2]
        IN  Balance(At(lines, a)) <= 0 =>
                /\ b = a
                /\ ResumedAt(a + 1)
                /\ KeptUnlessMatch(a + 1)
                /\ KeptUnlessMatch(a - 1)

\* C4 amended: a matching line a with balance <= 0 is skipped alone, the scan
\* goes on with line a + 1, which is kept when it does not match; line a - 1 is
\* kept when it does not match and is no continuation line of an earlier
\* skipped statement.
C4_SingleLine ==
    \A r \in 1..Len(ranges) :
        LET a == ranges[r][1]
            b == ranges[r][2]
        IN  Balance(At(lines, a)) <= 0 =>
                /\ b = a
                /\ a \notin kept
                /\ ResumedAt(a + 1)
                /\ KeptUnlessMatch(a + 1)
                /\ (a - 1) \notin Continuations => KeptUnlessMatch(a - 1)

C4_Witness ==
    /\ pc = "cmp"
    /\ lines = <<LNext, LSingle, LNext>>
    /\ ranges = << <<1, 1>> >>
    /\ new_lines = <<LNext, LNext>>

\* C5: content without a matching line is joined back to the same text, False
\* is returned, and the file is neither written nor counted.
C5_CleanNoOp ==
    /\ (pc = "cmp" /\ Clean(content)) => new_content = content
    /\ \A p \in Processed :
          Clean(disk0[p]) => (disk[p] = disk0[p] /\ p \notin written)
    /\ (pc \in {"main", "done"} /\ next_file > 0 /\ Clean(disk0[paths[next_file]]))
          => (ret = FALSE /\ files_cleaned = 0)

C5_Witness ==
    /\ pc = "done"
    /\ run = 1
    /\ Len(lines) >= 2
    /\ Clean(disk0[1])
    /\ ret = FALSE
    /\ written = {}

\* C6: when the run is over every file was attempted, whatever failed for
\* another file, and every file without an error report holds the text computed
\* for it, written exactly when that text differs from what was read.
C6_Isolation ==
    pc = "done" =>
        /\ next_file = Len(paths)
        /\ \A p \in DOMAIN disk :
              /\ attempts[p] = 1
              /\ p \notin Failed =>
                    /\ outputs[p] # Unprocessed
                    /\ disk[p] = outputs[p]
                    /\ (p \in written) <=> (outputs[p] # disk0[p])

C6_Witness ==
    /\ pc = "done"
    /\ Failed = {2}
    /\ written = {1, 3}
    /\ disk[1] = outputs[1]
    /\ disk[3] = outputs[3]

\* C7 as stated: each file is attempted once, is overwritten and counted exactly
\* when its text changed, files_cleaned is the number of files whose content on
\* disk was modified, and every other file is untouched.
C7_CountIsModified ==
    pc = "done" =>
        /\ \A p \in DOMAIN disk : attempts[p] = 1
        /\ \A p \in DOMAIN disk : ChangedBy(p) <=> (p \in written)
        /\ files_cleaned = Cardinality({p \in DOMAIN disk : disk[p] # disk0[p]})
        /\ \A p \in DOMAIN disk : p \notin written => disk[p] = disk0[p]

\* C7 amended: each file is attempted once; it is overwritten with the new text
\* and counted exactly when its text changed and the write-back raised nothing;
\* files_cleaned is the number of files so overwritten; every other file is
\* untouched unless its write raised after the file was opened.
C7_CountIsWritten ==
    pc = "done" =>
        /\ \A p \in DOMAIN disk : attempts[p] = 1
        /\ \A p \in DOMAIN disk :
              (p \in written) <=> (ChangedBy(p) /\ p \notin Failed)
        /\ files_cleaned = Cardinality(written)
        /\ \A p \in written : disk[p] = outputs[p] /\ disk[p] # disk0[p]
        /\ \A p \in DOMAIN disk :
              (p \notin written /\ <<p, "write">> \notin errors)
                  => disk[p] = disk0[p]

C7_Witness ==
    /\ pc = "done"
    /\ errors = {<<2, "write">>}
    /\ disk[2] # disk0[2]
    /\ written = {1, 3}
    /\ files_cleaned = 2

\* C8: with 0 <= startIndex <= endIndex <= len(lines) the new lines are the
\* first startIndex lines, the lines of the block, and the lines from endIndex
\* on: len(lines) - (endIndex - startIndex) + (lines of the block) in all.
C8_SpliceExact ==
    (pc \in {"built", "extracted"} /\ endIndex <= Len(lines)) =>
        LET out == Concat([m \in 1..Len(new_lines) |-> SplitKeepEnds(new_lines[m])])
            blk == SplitKeepEnds(delegation)
            n == Len(lines)
        IN  /\ Len(out) = n - (endIndex - startIndex) + Len(blk)
            /\ \A m \in 1..startIndex : out[m] = lines[m]
            /\ \A m \in 1..Len(blk) : out[startIndex + m] = blk[m]
            /\ \A m \in 1..(n - endIndex) :
                  out[Len(out) - (n - endIndex) + m] = lines[endIndex + m]

C8_Witness ==
    /\ pc = "extracted"
    /\ startIndex = 1
    /\ endIndex = 2
    /\ Len(lines) = 3
    /\ Len(new_lines) = 3
    /\ new_lines[1] = lines[1]
    /\ new_lines[3] = lines[3]

\* C9: a matching line a with balance > 0 that no later line closes is skipped
\* together with every line up to the last one; none of them is kept, the scan
\* is at the end of the file, and no error was reported.
C9_Unbalanced ==
    \A r \in 1..Len(ranges) :
        LET a == ranges[r][1]
            b == ranges[r][2]
        IN  (Balance(At(lines, a)) > 0 /\ ~HasClose(lines, a)) =>
                /\ b = Len(lines) - 1
                /\ r = Len(ranges)
                /\ kept \cap (a..(Len(lines) - 1)) = {}
                /\ pc \in {"scan", "cmp", "main", "done"}
                /\ i = Len(lines)
                /\ errors = {}

C9_Witness ==
    /\ pc = "cmp"
    /\ lines = <<LNext, LOpen, LWarn>>
    /\ ranges = << <<1, 2>> >>
    /\ new_lines = <<LNext>>

\* C10 as stated: the balance summed over a skipped range is zero, or the range
\* ends at the last line.
C10_Balanced ==
    \A r \in 1..Len(ranges) :
        \/ SumBalance(lines, ranges[r][1], ranges[r][2]) = 0
        \/ ranges[r][2] = Len(lines) - 1

\* C10 amended: the balance summed over a skipped range is <= 0, or the range
\* ends at the last line.
C10_Closed ==
    \A r \in 1..Len(ranges) :
        \/ SumBalance(lines, ranges[r][1], ranges[r][2]) <= 0
        \/ ranges[r][2] = Len(lines) - 1

C10_Witness ==
    /\ pc = "cmp"
    /\ lines = <<LOver, LNext>>
    /\ ranges = << <<0, 0>> >>
    /\ SumBalance(lines, 0, 0) < 0

====
